---- MODULE Spec2Model ----
(***************************************************************************)
(* Alma CKB scraper (Alma_CKB_Scraper_10_dev.py, Alma_CKB_Scraper_11_dev.py)*)
(*                                                                         *)
(* Two state machines share this module.                                   *)
(*   SpecTable : extract_tables on one table of one section, followed by   *)
(*               save_tables' serialisation of the returned list.  The     *)
(*               loops over sections and tables repeat this body; they     *)
(*               share nothing but the list extracted_tables.              *)
(*   Spec      : consecutive runs of main over the output directories.     *)
(* A text is a sequence of symbols; the symbol " " is whitespace.          *)
(***************************************************************************)
EXTENDS Integers, Sequences, FiniteSets, TLC

VARIABLES
    version,            \* 10 or 11: which source file runs
    \* ---- extract_tables / DataFrame.to_csv (SpecTable)
    epc,                \* position inside extract_tables and the write after it
    th,                 \* raw texts of the table's <th> cells, in document order
    h2,                 \* raw text of the nearest preceding <h2>, or NoElement
    span,               \* raw text of the section's AlmaRNTag span, or NoElement
    week_info,          \* section label of the enclosing rnsub div
    table_title,
    headers,
    rows,               \* raw <td> texts of the data rows iterated so far
    table_data,         \* list of row_data dicts built so far
    row_errors,         \* 1-based indices of the rows whose processing raised
    extracted_tables,
    csv,                \* csv[i]: lines of table_<i>.csv, each line a list of fields
    \* ---- main over the output directories (Spec)
    pc,                 \* position inside main: idle, resolve, fetch, rotate, save, done
    run,                \* number of the run of main in progress (or last finished)
    dirs,               \* the directories that exist
    fs,                 \* fs[d]: the files of directory d, name |-> content
    latest_url,         \* what get_latest_month_url returned
    n_tables,           \* len(tables): size of the list extract_tables returned
    save_ret,           \* what save_tables returned: <<>> is None, <<c>> the number c
    save_log,           \* "Successfully saved c out of n tables": <<c, n>>, or <<>>
    outcome,            \* how main ended: running, returned, completed, raised
    \* ---- history of the run, kept for stating the properties
    root,               \* what the request for the root page met
    target,             \* what the request for the target page met
    calls,              \* the functions main has called in this run, in order
    dirs0, fs0,         \* dirs and fs when the run started
    listing,            \* what os.listdir('current') returned in manage_output_folders
    moved,              \* the entry manage_output_folders renamed, <<>> if none
    writes,             \* writes[i]: what happened to the write of table i
    all_ok,             \* every run so far completed with every write succeeding
    out_last, out_prev  \* the tables written by the last two completed runs

tvars == <<epc, th, h2, span, week_info, table_title, headers, rows, table_data,
           row_errors, extracted_tables, csv>>

rvars == <<pc, run, dirs, fs, latest_url, n_tables, save_ret, save_log, outcome,
           root, target, calls, dirs0, fs0, listing, moved, writes, all_ok,
           out_last, out_prev>>

vars == <<version, tvars, rvars>>

(***************************************************************************)
(* Bounds of the model.                                                    *)
(***************************************************************************)
MaxHeaders == 2
MaxCells == 2
MaxRows == 2
MaxRuns == 3
MaxTables == 2

Versions == {10, 11}

NoElement == <<"<none>">>

\* raw texts a <th> may hold; one needs trimming, one collides with a synthetic key
ThTexts == {<<"A">>, <<" ", "B", " ">>, <<"week_info">>}
\* raw texts a <td> may hold
TdTexts == {<<" ", "x">>, <<"y">>}
H2Texts == {NoElement, <<" ", "Title">>}
SpanTexts == {NoElement, <<"W1", " ">>}

WEEK_INFO == <<"week_info">>
SOURCE_URL == <<"source_url">>
TABLE_TITLE == <<"table_title">>

\* the source_url argument
TheUrl == <<"http://page">>

SeqsUpTo(S, n) == UNION {[1..k -> S] : k \in 0..n}

(***************************************************************************)
(* str.strip()                                                             *)
(***************************************************************************)
RECURSIVE LStrip(_)
LStrip(t) == IF t # <<>> /\ Head(t) = " " THEN LStrip(Tail(t)) ELSE t

RECURSIVE RStrip(_)
RStrip(t) ==
    IF t # <<>> /\ t[Len(t)] = " " THEN RStrip(SubSeq(t, 1, Len(t) - 1)) ELSE t

Strip(t) == RStrip(LStrip(t))

StripAll(ts) == [i \in 1..Len(ts) |-> Strip(ts[i])]

(***************************************************************************)
(* A Python dict: a list of <<key, value>> pairs with distinct keys, in    *)
(* insertion order; assigning to a key that is present keeps its place.    *)
(***************************************************************************)
Keys(d) == [i \in 1..Len(d) |-> d[i][1]]

HasKey(d, k) == \E i \in 1..Len(d) : d[i][1] = k

Get(d, k) == d[CHOOSE i \in 1..Len(d) : d[i][1] = k][2]

DictSet(d, k, v) ==
    IF HasKey(d, k)
    THEN [i \in 1..Len(d) |-> IF d[i][1] = k THEN <<k, v>> ELSE d[i]]
    ELSE Append(d, <<k, v>>)

RECURSIVE DictUpdate(_, _)
DictUpdate(d, pairs) ==
    IF pairs = <<>> THEN d
    ELSE DictUpdate(DictSet(d, Head(pairs)[1], Head(pairs)[2]), Tail(pairs))

(***************************************************************************)
(* The body of the row loop of extract_tables.                             *)
(***************************************************************************)
\* {headers[i]: cells[i] for i in range(len(headers))}: cells[i] raises
\* IndexError as soon as i reaches len(cells)
HeaderCellDict(hs, cells) ==
    IF Len(cells) < Len(hs)
    THEN [raised |-> TRUE, dict |-> <<>>]
    ELSE [raised |-> FALSE,
          dict |-> DictUpdate(<<>>, [i \in 1..Len(hs) |-> <<hs[i], cells[i]>>])]

Synthetic(week, url, title) ==
    <<<<WEEK_INFO, week>>, <<SOURCE_URL, url>>, <<TABLE_TITLE, title>>>>

\* RowData with the cell texts taken as they are, not stripped
RowDataUnstripped(hs, tds, week, url, title) ==
    LET r == HeaderCellDict(hs, tds)
    IN  IF r.raised THEN r
        ELSE [raised |-> FALSE,
              dict |-> DictUpdate(r.dict, Synthetic(week, url, title))]

RowData(hs, tds, week, url, title) ==
    LET r == HeaderCellDict(hs, StripAll(tds))
    IN  IF r.raised THEN r
        ELSE [raised |-> FALSE,
              dict |-> DictUpdate(r.dict, Synthetic(week, url, title))]

WeekInfo(e) == IF e = NoElement THEN <<"Unknown Week">> ELSE Strip(e)

TableTitle(e) == IF e = NoElement THEN <<"Untitled Table">> ELSE Strip(e)

TableEntry(hs, data, title) ==
    [headers |-> hs \o <<WEEK_INFO, SOURCE_URL, TABLE_TITLE>>,
     rows |-> data,
     table_title |-> title]

(***************************************************************************)
(* pd.DataFrame(list of dicts).to_csv(index=False)                         *)
(***************************************************************************)
RECURSIVE AddNew(_, _)
AddNew(cols, ks) ==
    IF ks = <<>> THEN cols
    ELSE AddNew(IF \E i \in 1..Len(cols) : cols[i] = Head(ks)
                THEN cols ELSE Append(cols, Head(ks)),
                Tail(ks))

\* the frame's columns: the keys of the dicts, in order of first appearance
RECURSIVE FrameColumns(_)
FrameColumns(data) ==
    IF data = <<>> THEN <<>>
    ELSE AddNew(FrameColumns(SubSeq(data, 1, Len(data) - 1)), Keys(data[Len(data)]))

\* a value the dict lacks is NaN, written as the empty field
Field(d, k) == IF HasKey(d, k) THEN Get(d, k) ELSE <<>>

ToCsv(data) ==
    LET cols == FrameColumns(data)
    IN  <<cols>> \o [r \in 1..Len(data) |-> [c \in 1..Len(cols) |-> Field(data[r], cols[c])]]

(***************************************************************************)
(* The output directories.  A directory is a function from the names of    *)
(* its entries to their contents; a content is <<run, table, state>>: the  *)
(* run that wrote it, the table it holds and "full" or "partial".          *)
(***************************************************************************)
BaseDir == "CKB"
CurrentDir == "current"
LastTimeDir == "last time"
DirNames == {BaseDir, CurrentDir, LastTimeDir}

FileName(i) == "table_" \o ToString(i) \o ".csv"

\* a file some earlier use left in a directory
OtherFile == "notes.txt"
OtherContent == <<0, 0, "full">>

EmptyDir == [n \in {} |-> OtherContent]

Remove(d, name) == [n \in (DOMAIN d) \ {name} |-> d[n]]

Put(d, name, c) == [n \in (DOMAIN d) \cup {name} |-> IF n = name THEN c ELSE d[n]]

\* the orders in which os.listdir may return the entries of a directory
Listings(d) ==
    {o \in [1..Cardinality(DOMAIN d) -> DOMAIN d] : \A x \in DOMAIN d : \E i \in DOMAIN o : o[i] = x}

NoneValue == "<None>"
LatestUrl == "http://latest"

RootResponses ==
    {"request_error", "key_error", "no_container", "no_link", "no_href", "empty_href", "link"}

EmptyFs == [d \in DirNames |-> EmptyDir]

\* before the first run of main, over the directories ds holding f
BeforeRuns(ds, f) ==
    /\ pc = "idle"
    /\ run = 0
    /\ dirs = ds
    /\ fs = f
    /\ latest_url = NoneValue
    /\ n_tables = 0
    /\ save_ret = <<>>
    /\ save_log = <<>>
    /\ outcome = "running"
    /\ root = "none"
    /\ target = "none"
    /\ calls = <<>>
    /\ dirs0 = ds
    /\ fs0 = f
    /\ listing = <<>>
    /\ moved = <<>>
    /\ writes = <<>>
    /\ all_ok = TRUE
    /\ out_last = [run |-> 0, written |-> {}]
    /\ out_prev = [run |-> 0, written |-> {}]

IdleRun == BeforeRuns({}, EmptyFs)

IdleTable ==
    /\ epc = "idle"
    /\ th = <<>>
    /\ h2 = NoElement
    /\ span = NoElement
    /\ week_info = <<>>
    /\ table_title = <<>>
    /\ headers = <<>>
    /\ rows = <<>>
    /\ table_data = <<>>
    /\ row_errors = {}
    /\ extracted_tables = <<>>
    /\ csv = <<>>

(***************************************************************************)
(* SpecTable: extract_tables on one table, then the write of the result.   *)
(***************************************************************************)
InitTable ==
    /\ version \in Versions
    /\ th \in SeqsUpTo(ThTexts, MaxHeaders)
    /\ h2 \in H2Texts
    /\ span \in SpanTexts
    /\ epc = "section"
    /\ week_info = <<>>
    /\ table_title = <<>>
    /\ headers = <<>>
    /\ rows = <<>>
    /\ table_data = <<>>
    /\ row_errors = {}
    /\ extracted_tables = <<>>
    /\ csv = <<>>
    /\ IdleRun

\* one rnsub div is entered: week_info
BeginSection ==
    /\ epc = "section"
    /\ week_info' = WeekInfo(span)
    /\ epc' = "table"
    /\ UNCHANGED rvars
    /\ UNCHANGED <<version, th, h2, span, table_title, headers, rows, table_data,
                   row_errors, extracted_tables, csv>>

\* title_element, table_title, headers, rows, table_data = []
BeginTable ==
    /\ epc = "table"
    /\ table_title' = TableTitle(h2)
    /\ headers' = StripAll(th)
    /\ epc' = "rows"
    /\ UNCHANGED rvars
    /\ UNCHANGED <<version, th, h2, span, week_info, rows, table_data, row_errors,
                   extracted_tables, csv>>

\* one iteration of "for row in rows"
ProcessRow(tds) ==
    /\ epc = "rows"
    /\ Len(rows) < MaxRows
    /\ rows' = Append(rows, tds)
    /\ LET r == RowData(headers, tds, week_info, TheUrl, table_title)
       IN  IF ~r.raised
           THEN /\ table_data' = Append(table_data, r.dict)
                /\ UNCHANGED <<row_errors, epc>>
           ELSE /\ row_errors' = row_errors \cup {Len(rows) + 1}
                /\ UNCHANGED table_data
                \* version 10 catches in the row loop and goes on; version 11
                \* has only the handler around the whole table
                /\ epc' = IF version = 10 THEN "rows" ELSE "table_failed"
    /\ UNCHANGED rvars
    /\ UNCHANGED <<version, th, h2, span, week_info, table_title, headers,
                   extracted_tables, csv>>

\* the row loop is exhausted: extracted_tables.append({...})
AppendTable ==
    /\ epc = "rows"
    /\ extracted_tables' =
           Append(extracted_tables, TableEntry(headers, table_data, table_title))
    /\ epc' = "returned"
    /\ UNCHANGED rvars
    /\ UNCHANGED <<version, th, h2, span, week_info, table_title, headers, rows,
                   table_data, row_errors, csv>>

\* except Exception around the table: logged, the table is not appended
SkipTable ==
    /\ epc = "table_failed"
    /\ epc' = "returned"
    /\ UNCHANGED rvars
    /\ UNCHANGED <<version, th, h2, span, week_info, table_title, headers, rows,
                   table_data, row_errors, extracted_tables, csv>>

\* save_tables on the returned list: df = pd.DataFrame(table['rows']); df.to_csv
WriteCsv ==
    /\ epc = "returned"
    /\ csv' = [i \in 1..Len(extracted_tables) |-> ToCsv(extracted_tables[i].rows)]
    /\ epc' = "saved"
    /\ UNCHANGED rvars
    /\ UNCHANGED <<version, th, h2, span, week_info, table_title, headers, rows,
                   table_data, row_errors, extracted_tables>>

NextTable ==
    \/ BeginSection
    \/ BeginTable
    \/ \E tds \in SeqsUpTo(TdTexts, MaxCells) : ProcessRow(tds)
    \/ AppendTable
    \/ SkipTable
    \/ WriteCsv

SpecTable == InitTable /\ [][NextTable]_vars

(***************************************************************************)
(* The functions main calls.                                               *)
(***************************************************************************)
\* get_latest_month_url: both versions catch requests.RequestException and
\* return None; version 10 also catches every other Exception
get_latest_month_url(ver, resp) ==
    CASE resp = "request_error" -> [raised |-> FALSE, value |-> NoneValue]
      [] resp = "key_error"     -> [raised |-> ver = 11, value |-> NoneValue]
      [] resp = "no_container"  -> [raised |-> FALSE, value |-> NoneValue]
      [] resp = "no_link"       -> [raised |-> FALSE, value |-> NoneValue]
      [] resp = "no_href"       -> [raised |-> FALSE, value |-> NoneValue]
      [] resp = "empty_href"    -> [raised |-> FALSE, value |-> ""]
      [] OTHER                  -> [raised |-> FALSE, value |-> LatestUrl]

\* a test for the empty string only
EmptyOnly(u) == u = ""

\* Python's "not latest_url"
Falsy(u) == u = NoneValue \/ u = ""

\* fetch_html with the exception logged and not raised again
fetch_html_swallowed(resp) == [raised |-> FALSE]

\* fetch_html: logs and re-raises requests.RequestException
fetch_html(resp) == [raised |-> resp = "request_error"]

\* the loop of manage_output_folders: os.remove of every name of 'current'
\* that exists in 'last time'
RECURSIVE RemoveExisting(_, _)
RemoveExisting(last, order) ==
    IF order = <<>> THEN last
    ELSE RemoveExisting(IF Head(order) \in DOMAIN last
                        THEN Remove(last, Head(order)) ELSE last,
                        Tail(order))

RECURSIVE MoveAll(_, _, _)
MoveAll(cur, last, order) ==
    IF order = <<>> THEN [cur |-> cur, last |-> last]
    ELSE MoveAll(Remove(cur, Head(order)), Put(last, Head(order), cur[Head(order)]),
                 Tail(order))

\* manage_output_folders with the os.rename inside the loop: every entry moves
manage_output_folders_all(f, order) ==
    IF order = <<>>
    THEN [fs |-> f, moved |-> <<>>]
    ELSE LET r == MoveAll(f[CurrentDir], f[LastTimeDir], order)
         IN  [fs |-> [f EXCEPT ![CurrentDir] = r.cur, ![LastTimeDir] = r.last],
              moved |-> <<order[Len(order)]>>]

\* manage_output_folders over the files f, os.listdir('current') returning order;
\* the os.rename after the loop acts on the paths of the last iteration
manage_output_folders(f, order) ==
    IF order = <<>>
    THEN [fs |-> f, moved |-> <<>>]
    ELSE LET name == order[Len(order)]
             cleaned == RemoveExisting(f[LastTimeDir], order)
         IN  [fs |-> [f EXCEPT ![CurrentDir] = Remove(f[CurrentDir], name),
                               ![LastTimeDir] = Put(cleaned, name, f[CurrentDir][name])],
              moved |-> <<name>>]

WriteOutcomes == {"ok", "denied", "partial"}

\* df.to_csv(filename): written in full, refused before the file is opened,
\* or failing after part of it is written
WriteTable(d, i, r, w) ==
    CASE w = "ok"      -> Put(d, FileName(i), <<r, i, "full">>)
      [] w = "partial" -> Put(d, FileName(i), <<r, i, "partial">>)
      [] OTHER         -> d

\* the loop of save_tables with no handler inside it: the first failure ends it
RECURSIVE SaveLoopAbort(_, _, _, _, _)
SaveLoopAbort(d, i, n, r, ws) ==
    IF i > n THEN d
    ELSE IF ws[i] = "ok"
         THEN SaveLoopAbort(WriteTable(d, i, r, ws[i]), i + 1, n, r, ws)
         ELSE WriteTable(d, i, r, ws[i])

\* the loop of save_tables from table i on: an exception is logged and the
\* loop goes on with the next table
RECURSIVE SaveLoop(_, _, _, _, _)
SaveLoop(d, i, n, r, ws) ==
    IF i > n THEN d
    ELSE SaveLoop(WriteTable(d, i, r, ws[i]), i + 1, n, r, ws)

\* save_tables: no return statement in either version; version 10 logs the
\* number of tables saved
save_tables(ver, d, n, r, ws) ==
    [dir |-> SaveLoop(d, 1, n, r, ws),
     ret |-> <<>>,
     log |-> IF ver = 10
             THEN <<Cardinality({i \in 1..n : ws[i] = "ok"}), n>>
             ELSE <<>>]

(***************************************************************************)
(* Spec: runs of main, one after the other.                                *)
(***************************************************************************)
Init ==
    /\ version \in Versions
    /\ IdleTable
    /\ \/ BeforeRuns({}, EmptyFs)
       \/ BeforeRuns(DirNames,
                     [EmptyFs EXCEPT ![LastTimeDir] = Put(EmptyDir, OtherFile, OtherContent)])

\* main is entered: setup_logging and load_config, which re-raises
StartRun(config_ok) ==
    /\ pc \in {"idle", "done"}
    /\ run < MaxRuns
    /\ run' = run + 1
    /\ dirs0' = dirs
    /\ fs0' = fs
    /\ latest_url' = NoneValue
    /\ n_tables' = 0
    /\ save_ret' = <<>>
    /\ save_log' = <<>>
    /\ root' = "none"
    /\ target' = "none"
    /\ listing' = <<>>
    /\ moved' = <<>>
    /\ writes' = <<>>
    /\ calls' = <<"load_config">>
    /\ IF config_ok
       THEN /\ pc' = "resolve"
            /\ outcome' = "running"
            /\ UNCHANGED all_ok
       ELSE /\ pc' = "done"
            /\ outcome' = "raised"
            /\ all_ok' = FALSE
    /\ UNCHANGED <<version, tvars, dirs, fs, out_last, out_prev>>

\* latest_url = get_latest_month_url(config); if not latest_url: return
Resolve(resp) ==
    /\ pc = "resolve"
    /\ root' = resp
    /\ calls' = Append(calls, "get_latest_month_url")
    /\ LET r == get_latest_month_url(version, resp)
       IN  IF r.raised
           THEN /\ pc' = "done"
                /\ outcome' = "raised"
                /\ all_ok' = FALSE
                /\ UNCHANGED latest_url
           ELSE /\ latest_url' = r.value
                /\ IF Falsy(r.value)
                   THEN /\ pc' = "done"
                        /\ outcome' = "returned"
                        /\ all_ok' = FALSE
                   ELSE /\ pc' = "fetch"
                        /\ UNCHANGED <<outcome, all_ok>>
    /\ UNCHANGED <<version, tvars, run, dirs, fs, n_tables, save_ret, save_log,
                   target, dirs0, fs0, listing, moved, writes, out_last, out_prev>>

\* html_content = fetch_html(latest_url); tables = extract_tables(...)
FetchAndExtract(resp, n) ==
    /\ pc = "fetch"
    /\ target' = resp
    /\ IF fetch_html(resp).raised
       THEN /\ calls' = Append(calls, "fetch_html")
            /\ pc' = "done"
            /\ outcome' = "raised"
            /\ all_ok' = FALSE
            /\ UNCHANGED n_tables
       ELSE /\ calls' = calls \o <<"fetch_html", "extract_tables">>
            /\ n_tables' = n
            /\ pc' = IF version = 11 THEN "rotate" ELSE "save"
            /\ UNCHANGED <<outcome, all_ok>>
    /\ UNCHANGED <<version, tvars, run, dirs, fs, latest_url, save_ret, save_log,
                   root, dirs0, fs0, listing, moved, writes, out_last, out_prev>>

\* manage_output_folders(base_output_dir), version 11 only
Rotate(order) ==
    /\ pc = "rotate"
    /\ LET r == manage_output_folders(fs, order)
       IN  /\ fs' = r.fs
           /\ moved' = r.moved
    /\ listing' = order
    /\ dirs' = dirs \cup {BaseDir, CurrentDir, LastTimeDir}
    /\ calls' = Append(calls, "manage_output_folders")
    /\ pc' = "save"
    /\ UNCHANGED <<version, tvars, run, latest_url, n_tables, save_ret, save_log,
                   outcome, root, target, dirs0, fs0, writes, all_ok, out_last,
                   out_prev>>

\* the directory main passes to save_tables
OutputDir(ver) == IF ver = 11 THEN CurrentDir ELSE BaseDir

\* save_tables(tables, output dir), then main returns
Save(ws) ==
    /\ pc = "save"
    /\ LET r == save_tables(version, fs[OutputDir(version)], n_tables, run, ws)
       IN  /\ fs' = [fs EXCEPT ![OutputDir(version)] = r.dir]
           /\ save_ret' = r.ret
           /\ save_log' = r.log
    /\ dirs' = dirs \cup {BaseDir, OutputDir(version)}
    /\ writes' = ws
    /\ calls' = Append(calls, "save_tables")
    /\ pc' = "done"
    /\ outcome' = "completed"
    /\ all_ok' = (all_ok /\ \A i \in 1..n_tables : ws[i] = "ok")
    /\ out_prev' = out_last
    /\ out_last' = [run |-> run, written |-> {i \in 1..n_tables : ws[i] = "ok"}]
    /\ UNCHANGED <<version, tvars, run, latest_url, n_tables, root, target,
                   dirs0, fs0, listing, moved>>

Next ==
    \/ \E config_ok \in BOOLEAN : StartRun(config_ok)
    \/ \E resp \in RootResponses : Resolve(resp)
    \/ \E resp \in {"ok", "request_error"}, n \in 0..MaxTables : FetchAndExtract(resp, n)
    \/ \E order \in Listings(fs[CurrentDir]) : Rotate(order)
    \/ \E ws \in [1..n_tables -> WriteOutcomes] : Save(ws)

Spec == Init /\ [][Next]_vars

(***************************************************************************)
(* Properties of extract_tables and of the written files (SpecTable).      *)
(***************************************************************************)
SyntheticKeys == {WEEK_INFO, SOURCE_URL, TABLE_TITLE}

\* the header labels are pairwise distinct and none is a synthetic key
WellFormedHeaders(hs) ==
    /\ \A i, j \in 1..Len(hs) : hs[i] = hs[j] => i = j
    /\ \A i \in 1..Len(hs) : hs[i] \notin SyntheticKeys

Trimmed(t) == t = <<>> \/ (t[1] # " " /\ t[Len(t)] # " ")

\* the place in table_data of the record of row r, when row r did not raise
RecordIndex(r) == r - Cardinality({e \in row_errors : e < r})

\* the label of the section and the title of the table, as the page gives them
SectionLabel == IF span = NoElement THEN <<"Unknown Week">> ELSE Strip(span)

Title == IF h2 = NoElement THEN <<"Untitled Table">> ELSE Strip(h2)

\* d holds the first k headers mapped to the trimmed first k cells of tds, the
\* three synthetic fields, and nothing else
IsRecordOf(d, k, tds) ==
    /\ Len(d) = k + 3
    /\ {d[j][1] : j \in 1..Len(d)} = {headers[i] : i \in 1..k} \cup SyntheticKeys
    /\ \A i \in 1..k :
          /\ HasKey(d, headers[i])
          /\ Get(d, headers[i]) = Strip(tds[i])
          /\ Trimmed(Get(d, headers[i]))
    /\ HasKey(d, WEEK_INFO) /\ Get(d, WEEK_INFO) = SectionLabel
    /\ HasKey(d, SOURCE_URL) /\ Get(d, SOURCE_URL) = TheUrl
    /\ HasKey(d, TABLE_TITLE) /\ Get(d, TABLE_TITLE) = Title

TableDone == epc \in {"returned", "saved"}

\* C1: with pairwise distinct, non-synthetic header labels, every data row with
\* at least H cells yields a record of exactly H + 3 fields: header i mapped to
\* the trimmed text of cell i, no field for the cells from H on, and week_info,
\* source_url, table_title set to the section label, the URL and the title; the
\* table appended to the result holds these records.
C1_FullRowRecord ==
    /\ \A r \in 1..Len(rows) :
          (WellFormedHeaders(headers) /\ Len(rows[r]) >= Len(headers)) =>
              /\ r \notin row_errors
              /\ RecordIndex(r) \in 1..Len(table_data)
              /\ IsRecordOf(table_data[RecordIndex(r)], Len(headers), rows[r])
    /\ (TableDone /\ extracted_tables # <<>>) => extracted_tables[1].rows = table_data

\* a table with a header and a row of more cells than headers has been extracted
C1_Witness ==
    /\ epc = "returned"
    /\ Len(extracted_tables) = 1
    /\ WellFormedHeaders(headers)
    /\ Len(headers) >= 1
    /\ \E r \in 1..Len(rows) : Len(rows[r]) > Len(headers) /\ Strip(rows[r][1]) # rows[r][1]
    /\ Len(extracted_tables[1].rows) = Len(rows)

\* C2: a data row with C < H cells still yields a record, holding exactly the
\* first C headers mapped to the C cells plus the three synthetic fields, and
\* the record is among the records of the table in the result.
C2_ShortRowTruncated ==
    \A r \in 1..Len(rows) :
        (WellFormedHeaders(headers) /\ Len(rows[r]) < Len(headers)) =>
            /\ r \notin row_errors
            /\ RecordIndex(r) \in 1..Len(table_data)
            /\ IsRecordOf(table_data[RecordIndex(r)], Len(rows[r]), rows[r])
            /\ TableDone => /\ Len(extracted_tables) = 1
                            /\ extracted_tables[1].rows = table_data

\* C3: in both versions, when the processing of a row raises, the table is
\* still appended to the result, with one record for every row that did not
\* raise, in row order.
C3_RowFailureRecovered ==
    (TableDone /\ row_errors # {}) =>
        /\ Len(extracted_tables) = 1
        /\ extracted_tables[1].rows = table_data
        /\ Len(table_data) = Len(rows) - Cardinality(row_errors)
        /\ \A r \in 1..Len(rows) :
              (r \notin row_errors /\ WellFormedHeaders(headers)) =>
                  IsRecordOf(table_data[RecordIndex(r)], Len(headers), rows[r])

\* reading a written file back: the first line names the columns, every other
\* line is a record
ReadColumns(lines) == Head(lines)
ReadRecords(lines) == Tail(lines)

\* C7: every written file, also that of a table with no record, has the
\* table's 'headers' list as its first line and one line per record with the
\* record's values in that column order, a missing value written empty; read
\* back, it gives the columns and the values of the table in memory.
C7_CsvRoundTrip ==
    epc = "saved" =>
        /\ Len(csv) = Len(extracted_tables)
        /\ \A t \in 1..Len(extracted_tables) :
              LET T == extracted_tables[t]
              IN  /\ csv[t] # <<>>
                  /\ ReadColumns(csv[t]) = T.headers
                  /\ Len(ReadRecords(csv[t])) = Len(T.rows)
                  /\ \A r \in 1..Len(T.rows) :
                        ReadRecords(csv[t])[r] =
                            [c \in 1..Len(T.headers) |-> Field(T.rows[r], T.headers[c])]

(***************************************************************************)
(* Properties of the runs of main (Spec).                                  *)
(***************************************************************************)
RunDone == pc = "done"

Completed == pc = "done" /\ outcome = "completed"

TableFiles(n) == {FileName(i) : i \in 1..n}

C5_LastTimeHoldsPreviousRun ==
    (Completed /\ version = 11 /\ out_prev.run >= 1 /\ out_prev.run = run - 1) =>
        \A i \in out_prev.written :
            /\ FileName(i) \in DOMAIN fs[LastTimeDir]
            /\ fs[LastTimeDir][FileName(i)] = <<out_prev.run, i, "full">>

\* C6: after complete runs in which every write succeeded, 'current' holds
\* exactly table_1.csv .. table_N.csv of the latest run, with that run's
\* content, and no file of an earlier run.
C6_CurrentHoldsLatestRun ==
    (Completed /\ version = 11 /\ all_ok) =>
        /\ DOMAIN fs[CurrentDir] = TableFiles(n_tables)
        /\ \A i \in 1..n_tables : fs[CurrentDir][FileName(i)] = <<run, i, "full">>

SavedCount == Cardinality({i \in 1..n_tables : writes[i] = "ok"})

\* the tables whose write succeeded are in the output directory, each under
\* its own position, whatever happened to the tables before them
LaterTablesWritten ==
    \A i \in 1..n_tables :
        writes[i] = "ok" =>
            /\ FileName(i) \in DOMAIN fs[OutputDir(version)]
            /\ fs[OutputDir(version)][FileName(i)] = <<run, i, "full">>

\* C8 as stated: a failed write does not stop the writes of the later tables,
\* and save_tables returns the number of tables written.
C8_SaveReturnsCount ==
    Completed => (LaterTablesWritten /\ save_ret = <<SavedCount>>)

\* C8 amended: a failed write does not stop the writes of the later tables;
\* save_tables returns nothing (None); version 10 logs the number of tables
\* written and the number attempted, version 11 does not.
C8_SaveContinuesReturnsNone ==
    Completed =>
        /\ LaterTablesWritten
        /\ save_ret = <<>>
        /\ save_log = IF version = 10 THEN <<SavedCount, n_tables>> ELSE <<>>

\* the write of a table failed and the write of a later table succeeded
C8_Witness ==
    /\ Completed
    /\ \E i, j \in 1..n_tables : i < j /\ writes[i] # "ok" /\ writes[j] = "ok"

NotFoundResponses == {"no_container", "no_link", "no_href"}

\* main called nothing after get_latest_month_url and the directories are as
\* they were when the run started
NothingDone ==
    /\ calls = <<"load_config", "get_latest_month_url">>
    /\ fs = fs0
    /\ dirs = dirs0

\* C9: when the root page lacks the container, or the container holds no item
\* with an href, get_latest_month_url returns None without raising and main
\* ends without raising, without fetching a target page, rotating or writing.
C9_NotFoundEndsCleanly ==
    (RunDone /\ root \in NotFoundResponses) =>
        /\ latest_url = NoneValue
        /\ outcome = "returned"
        /\ NothingDone

\* a run of version 11 met a root page with no container while 'current' and
\* 'last time' held files
C9_Witness ==
    /\ RunDone
    /\ version = 11
    /\ root = "no_container"
    /\ DOMAIN fs0[CurrentDir] # {}
    /\ DOMAIN fs0[LastTimeDir] # {}

NoRotationNoWrite ==
    /\ \A i \in 1..Len(calls) : calls[i] \notin {"manage_output_folders", "save_tables"}
    /\ fs = fs0
    /\ dirs = dirs0

\* C10 as stated: a failed request for the root page or for the target page
\* makes main raise, with no rotation and no write.
C10_FetchFailureFatal ==
    (RunDone /\ (root = "request_error" \/ target = "request_error")) =>
        (outcome = "raised" /\ NoRotationNoWrite)

\* C10 amended: a failed request for the target page makes main raise, with no
\* rotation and no write; a failed request for the root page is caught in
\* get_latest_month_url, which returns None, and main returns normally, having
\* fetched no target page, rotated nothing and written nothing.
C10_TargetFatalRootNotFound ==
    RunDone =>
        /\ target = "request_error" => (outcome = "raised" /\ NoRotationNoWrite)
        /\ root = "request_error" =>
              (latest_url = NoneValue /\ outcome = "returned" /\ NothingDone)

\* a run of version 11 failed to fetch the target page while 'current' held files
C10_Witness ==
    /\ RunDone
    /\ version = 11
    /\ target = "request_error"
    /\ DOMAIN fs0[CurrentDir] # {}

====
